---- MODULE Spec2Model ----
(***************************************************************************)
(* Model of nao_core/commands/sync/cleanup.py: the DatabaseSyncState       *)
(* ledger, cleanup_stale_paths and cleanup_stale_database_types, over a    *)
(* small file tree; and of the database contexts of                        *)
(* nao_core/config/databases: the generic DatabaseContext and its          *)
(* BigQuery, Redshift and ClickHouse variants, against a warehouse that    *)
(* may fail any query; of get_schemas of the BigQuery, Redshift and        *)
(* ClickHouse configs; and of the parts of the sync pipeline around them,  *)
(* the accessors, truncate_middle and the sync run over the configured     *)
(* databases, as the specification of the pipeline describes them.         *)
(*                                                                         *)
(* A string is a sequence of tokens: the prefixes "schema=", "table=" and  *)
(* "type=" are one token each, every other token is plain text that holds  *)
(* none of them.  A directory name such as `schema=schema=a` is            *)
(* <<"schema=", "schema=", "a">>.                                          *)
(***************************************************************************)
EXTENDS Integers, Sequences, FiniteSets

VARIABLES
    types,            \* entries directly under base_path: [name, dir]
    db_dir,           \* whether the directory database=<db> exists under type=duckdb
    tree,             \* entries under db_path: [path, dir], path relative to db_path
    synced_schemas,   \* DatabaseSyncState.synced_schemas
    synced_tables,    \* DatabaseSyncState.synced_tables (function on its keys)
    schemas_synced,   \* DatabaseSyncState.schemas_synced
    tables_synced,    \* DatabaseSyncState.tables_synced
    calls,            \* history: how often each add_table / add_schema call was made
    last,             \* the call that made the last step, and how it ended
    ch_flag,          \* ClickHouseDatabaseContext._direct_select_disallowed, per context
    ch_ref,           \* whether DatabaseContext._table_ref is set, per ClickHouse context
    ctx_last,         \* the last call on a database context, and how it ended
    gs_last,          \* the last get_schemas call on a database config, and its result
    acc_last,         \* the last call on an accessor or on truncate_middle, and its result
    sync              \* the sync run over the configured databases: where it stands

vars == <<types, db_dir, tree, synced_schemas, synced_tables, schemas_synced,
          tables_synced, calls, last, ch_flag, ch_ref, ctx_last, gs_last,
          acc_last, sync>>

\* the state of the database configs
configs == <<gs_last>>

\* the state of the sync pipeline around the contexts
pipeline == <<acc_last, sync>>

context == <<ch_flag, ch_ref, ctx_last, configs, pipeline>>

ledger == <<synced_schemas, synced_tables, schemas_synced, tables_synced, calls>>

----------------------------------------------------------------------------
(* Bounds *)

MaxEntries == 3     \* entries in the file tree, the directories of db_path apart
MaxCalls == 2       \* add_table / add_schema calls in one run
MaxText == 6        \* characters in a text given to truncate_middle

----------------------------------------------------------------------------
(* Names *)

SchemaPrefix == "schema="
TablePrefix == "table="
TypePrefix == "type="

\* schema and table names a warehouse may report
SchemaNames == {<<"a">>, <<"schema=", "a">>}
TableNames == {<<"u">>, <<"table=", "u">>}

Dir(name) == [name |-> name, dir |-> TRUE]

File(name) == [name |-> name, dir |-> FALSE]

\* the entries found below db_path, by depth
SchemaLevelEntries ==
    {Dir(<<"schema=", "a">>), Dir(<<"schema=", "b">>), Dir(<<"schema=", "schema=", "a">>),
     Dir(<<"other_dir">>), File(<<"schema=", "a">>)}

TableLevelEntries ==
    {Dir(<<"table=", "u">>), Dir(<<"table=", "table=", "u">>), Dir(<<"metadata">>),
     File(<<"table=", "u">>)}

ArtifactEntries == {File(<<"columns.md">>)}

\* the entries found directly below base_path
DbTypeName == <<"type=", "duckdb">>
TypeLevelEntries ==
    {Dir(DbTypeName), Dir(<<"type=", "postgres">>), Dir(<<"some_other_dir">>),
     File(<<"type=", "postgres">>)}

LevelEntries(depth) ==
    CASE depth = 1 -> SchemaLevelEntries
      [] depth = 2 -> TableLevelEntries
      [] OTHER -> ArtifactEntries

MaxDepth == 3

\* str.startswith(prefix)
StartsWith(name, prefix) == Len(name) > 0 /\ name[1] = prefix

\* str.replace(prefix, ""): every occurrence is dropped, not only the first
Replace(name, prefix) == SelectSeq(name, LAMBDA tok : tok # prefix)

\* the text that follows the leading prefix of a directory name
AfterPrefix(name) == Tail(name)

----------------------------------------------------------------------------
(* The file tree *)

\* db_path = base_path / type=duckdb / database=<db>; it exists with its type directory
DbTypeDir == Dir(DbTypeName)

DbPathExists == DbTypeDir \in types /\ db_dir

IsPrefix(p, q) == Len(p) <= Len(q) /\ SubSeq(q, 1, Len(p)) = p

Parent(p) == SubSeq(p, 1, Len(p) - 1)

\* Path.iterdir() of the directory at path p (<< >> is db_path itself)
Iterdir(t, p) == {e \in t : Len(e.path) = Len(p) + 1 /\ IsPrefix(p, e.path)}

\* the entry at path p and everything below it
Subtree(t, p) == {e \in t : IsPrefix(p, e.path)}

SubtreeOfAll(t, ps) == {e \in t : \E p \in ps : IsPrefix(p, e.path)}

\* shutil.rmtree of every path in ps
Rmtree(t, ps) == t \ SubtreeOfAll(t, ps)

Name(e) == e.path[Len(e.path)]

NoCall == [op |-> "none", raised |-> FALSE, ret |-> 0, stale |-> {}]

Returned(op, n, stale) == [op |-> op, raised |-> FALSE, ret |-> n, stale |-> stale]

Raised(op, stale) == [op |-> op, raised |-> TRUE, ret |-> 0, stale |-> stale]

----------------------------------------------------------------------------
(* Database contexts: values, errors and what the warehouse answers *)

\* an optional string (str | None), its text in tokens
None == [some |-> FALSE, text |-> << >>]

Some(text) == [some |-> TRUE, text |-> text]

\* the truth value Python gives an optional string: None and "" are false
Truthy(o) == o.some /\ o.text # << >>

Whitespace == {" ", "\n"}

\* str.strip(): the whitespace at both ends is dropped
RECURSIVE Strip(_)
Strip(text) ==
    IF text = << >> THEN text
    ELSE IF Head(text) \in Whitespace THEN Strip(Tail(text))
    ELSE IF text[Len(text)] \in Whitespace THEN Strip(SubSeq(text, 1, Len(text) - 1))
    ELSE text

\* `x or None`
OrNone(text) == IF text = << >> THEN None ELSE Some(text)

\* a value fetched from the warehouse: its Python type and its text
Value(kind, text) == [kind |-> kind, text |-> text]

\* str(val)
Str(val) == Value("str", val.text)

JsonKinds == {"str", "int", "float", "bool", "list", "dict"}

\* an exception of the driver: the error code of the server and str(exc) in
\* tokens; a token that is not one of the markers below holds none of them
NoError == [code |-> "none", msg |-> << >>]

DirectSelectError ==
    [code |-> "620",
     msg |-> <<"Code: ", "620", ". DB::Exception: ", "Direct select is not allowed",
               ". To enable use setting ", "stream_like_engine_allow_direct_select">>]

UnknownTableError ==
    [code |-> "60",
     msg |-> <<"Code: 60. DB::Exception: Table default.events_", "620", " does not exist">>]

TimeoutError == [code |-> "159", msg |-> <<"Code: 159. DB::Exception: Timeout exceeded">>]

DIRECT_SELECT_DISALLOWED ==
    {"620", "Direct select is not allowed", "stream_like_engine_allow_direct_select"}

\* a classification that never recognises the condition
is_direct_select_disallowedNever(exc) == FALSE

\* any(s in str(exc) for s in _DIRECT_SELECT_DISALLOWED)
is_direct_select_disallowed(exc) ==
    \E i \in 1..Len(exc.msg) : exc.msg[i] \in DIRECT_SELECT_DISALLOWED

\* the ClickHouse tables a context is made for: a Kafka-engine table, an
\* ordinary table whose name ends in 620, and a table that reports no column
ChTables == {"kafka_events", "events_620", "no_columns"}

\* the table the contexts of the other warehouses are made for
OrdersTable == "orders"

\* the errors a direct read of the table can meet
DirectReadErrors(c) ==
    IF c = "kafka_events" THEN {DirectSelectError, TimeoutError}
    ELSE {UnknownTableError, TimeoutError}

Dtype(raw, nullable) == [raw |-> raw, nullable |-> nullable]

\* table.schema(): column names and Ibis types, str(dtype) in tokens
TableSchema(c) ==
    IF c = "no_columns" THEN << >>
    ELSE <<[name |-> "id", dtype |-> Dtype(<<"!", "int64">>, FALSE)],
           [name |-> "payload", dtype |-> Dtype(<<"string">>, TRUE)]>>

\* the rows of system.columns for the table, ORDER BY position
SystemColumns(c) ==
    IF c = "no_columns" THEN << >>
    ELSE <<[name |-> "id", type |-> <<"Int64">>],
           [name |-> "payload", type |-> <<"Nullable", "(String)">>]>>

\* the rows the table holds, as the driver hands them over
TableRows(c) ==
    IF c = "no_columns" THEN << >>
    ELSE <<[id |-> Value("int", <<"1">>),
            payload |-> Value("datetime", <<"2024-01-01 00:00:00">>)],
           [id |-> Value("null", <<"None">>), payload |-> Value("dict", <<"{'k': [1]}">>)],
           [id |-> Value("Decimal", <<"2.50">>), payload |-> Value("list", <<"[1, 2]">>)]>>

\* what SHOW CREATE TABLE answers: an error, a blank cell or the DDL
ShowCreateAnswers(c) ==
    {[ok |-> FALSE, cell |-> << >>],
     [ok |-> TRUE, cell |-> <<"\n">>],
     [ok |-> TRUE, cell |-> <<"CREATE TABLE default.", c, " (...)", "\n">>]}

\* what system.tables answers for the comment: an error, no comment, a blank
\* comment or a comment
CommentAnswers ==
    {[ok |-> FALSE, cell |-> << >>],
     [ok |-> TRUE, cell |-> << >>],
     [ok |-> TRUE, cell |-> <<" ">>],
     [ok |-> TRUE, cell |-> <<" ", "user events">>]}

\* the answer of the system.columns query: the rows of the table, or a failure
SystemColumnsAnswer(ok) == [ok |-> ok, cell |-> << >>]

\* the record of a call on a context: who was called, the state of the
\* fallback flag when the call began, how it ended, the queries it issued and
\* the answer the catalog gave to the one catalog query of the ClickHouse reads
NoContextCall ==
    [variant |-> "none", ctx |-> "none", op |-> "none", limit |-> 0,
     fallback |-> FALSE, raised |-> FALSE, err |-> NoError, queries |-> {},
     cat_failed |-> FALSE, count |-> 0, rows |-> << >>, names |-> << >>,
     text |-> None, fetched |-> << >>, catalog |-> << >>]

ContextCall(variant, ctx, op) ==
    [NoContextCall EXCEPT !.variant = variant, !.ctx = ctx, !.op = op]

\* the queries that read the table itself, and the catalog queries
DirectQueries == {"table", "schema", "count", "select"}

CatalogQueries == {"SHOW CREATE TABLE", "system.columns", "system.tables"}

\* schema names as the warehouses list them; in a Redshift name the letters
\* `pg` and the character that follows them are tokens of their own
Analytics == <<"analytics">>
InformationSchema == <<"information_schema">>

\* list_databases() of a ClickHouse server, and pg_namespace of a Redshift
\* database by nspname: a warehouse holds any of these, in this order
ClickHouseDatabases ==
    <<<<"system">>, <<"INFORMATION_SCHEMA">>, InformationSchema, <<"default">>, Analytics>>

RedshiftNamespaces ==
    <<Analytics, InformationSchema, <<"pg", "_", "catalog">>, <<"pg", "b", "ouncer">>,
      <<"public">>>>

BigQueryDatasets == <<<<"sales">>, <<"staging">>>>

Elements(seq) == {seq[i] : i \in 1..Len(seq)}

\* the listings a warehouse can give: the names it holds, in the order above
Listings(all) ==
    {SelectSeq(all, LAMBDA name : name \in held) : held \in SUBSET Elements(all)}

\* schemas_include: list[str] | None
NoInclude == [some |-> FALSE, items |-> << >>]

Include(items) == [some |-> TRUE, items |-> items]

Includes ==
    {NoInclude, Include(<< >>), Include(<<Analytics>>),
     Include(<<Analytics, <<"missing">>>>), Include(<<<<"system">>, <<"default">>>>)}

\* dataset_id / schema_name: str | None
Pins(name) == {None, Some(<< >>), Some(name)}

\* the databases of the configuration, in the order they are synced
Databases == <<"warehouse", "lake">>

\* a sync run before it starts: the step it is at, the table filters of the
\* configuration, the database it is at and what became of each database,
\* the schemas and tables still to visit, the tables the warehouse listed,
\* the tables whose accessors degraded, and the cleanup calls made so far
NoRun ==
    [pc |-> "idle", include |-> {}, exclude |-> {}, db |-> 1,
     status |-> [d \in 1..Len(Databases) |-> "pending"],
     schemas |-> << >>, schema |-> << >>, tables |-> << >>,
     enumerated |-> {}, degraded |-> {},
     cleaned |-> [d \in 1..Len(Databases) |-> 0], types_cleaned |-> 0]

\* the record of a call on an accessor or on the truncation helper
NoAccessorCall ==
    [op |-> "none", kind |-> "none", table |-> "none", err |-> NoError,
     raised |-> FALSE, text |-> << >>, max_length |-> 0, result |-> << >>]

\* the record of a get_schemas call: the config it was made on, what the
\* connection offered and answered, and the list it returned
NoSchemasCall ==
    [variant |-> "none", pinned |-> None, include |-> NoInclude, listable |-> FALSE,
     listing |-> << >>, query_failed |-> FALSE, schemas |-> << >>]

SchemasCall(variant) == [NoSchemasCall EXCEPT !.variant = variant]

----------------------------------------------------------------------------
(* DatabaseSyncState *)

TablesOf(schema) == IF schema \in DOMAIN synced_tables THEN synced_tables[schema] ELSE {}

NoCalls == [tables |-> [p \in SchemaNames \X TableNames |-> 0],
            schemas |-> [s \in SchemaNames |-> 0]]

RECURSIVE SumOver(_, _)
SumOver(f, S) ==
    IF S = {} THEN 0
    ELSE LET x == CHOOSE y \in S : TRUE IN f[x] + SumOver(f, S \ {x})

AddTableCalls == SumOver(calls.tables, DOMAIN calls.tables)

AddSchemaCalls == SumOver(calls.schemas, DOMAIN calls.schemas)

CallCount == AddTableCalls + AddSchemaCalls

Init ==
    /\ types = {}
    /\ db_dir = FALSE
    /\ tree = {}
    /\ synced_schemas = {}
    /\ synced_tables = << >>
    /\ schemas_synced = 0
    /\ tables_synced = 0
    /\ calls = NoCalls
    /\ last = NoCall
    /\ ch_flag = [c \in ChTables |-> FALSE]
    /\ ch_ref = [c \in ChTables |-> FALSE]
    /\ ctx_last = NoContextCall
    /\ gs_last = NoSchemasCall
    /\ acc_last = NoAccessorCall
    /\ sync = NoRun

TablesAfterAdd(schema, table) ==
    [s \in DOMAIN synced_tables \cup {schema} |->
        IF s = schema THEN TablesOf(s) \cup {table} ELSE synced_tables[s]]

\* a counter of distinct tables instead of calls
TablesSyncedAfterAddDistinct(schema, table) ==
    IF table \in TablesOf(schema) THEN tables_synced ELSE tables_synced + 1

\* add_table: self.tables_synced += 1
TablesSyncedAfterAdd(schema, table) == tables_synced + 1

\* a counter of distinct schemas instead of calls
SchemasSyncedAfterAddDistinct(schema) ==
    IF schema \in synced_schemas THEN schemas_synced ELSE schemas_synced + 1

\* add_schema: self.schemas_synced += 1
SchemasSyncedAfterAdd(schema) == schemas_synced + 1

\* add_table that records the table only
SchemasAfterAddTableForgotten(schema) == synced_schemas

\* add_table: self.synced_schemas.add(schema)
SchemasAfterAddTable(schema) == synced_schemas \cup {schema}

add_table(schema, table) ==
    /\ CallCount < MaxCalls
    /\ synced_schemas' = SchemasAfterAddTable(schema)
    /\ synced_tables' = TablesAfterAdd(schema, table)
    /\ tables_synced' = TablesSyncedAfterAdd(schema, table)
    /\ calls' = [calls EXCEPT !.tables[<<schema, table>>] = @ + 1]
    /\ last' = NoCall
    /\ UNCHANGED <<types, db_dir, tree, schemas_synced, context>>

add_schema(schema) ==
    /\ CallCount < MaxCalls
    /\ synced_schemas' = synced_schemas \cup {schema}
    /\ schemas_synced' = SchemasSyncedAfterAdd(schema)
    /\ calls' = [calls EXCEPT !.schemas[schema] = @ + 1]
    /\ last' = NoCall
    /\ UNCHANGED <<types, db_dir, tree, synced_tables, tables_synced, context>>

----------------------------------------------------------------------------
(* Writing the tree: what a sync run (or a test's mkdir / write_text) does *)

EntryCount == Cardinality(types \ {DbTypeDir}) + Cardinality(tree)

\* mkdir or write_text directly under base_path
MakeTypeEntry(name, isDir) ==
    /\ EntryCount < MaxEntries
    /\ \A e \in types : e.name # name
    /\ types' = types \cup {[name |-> name, dir |-> isDir]}
    /\ last' = NoCall
    /\ UNCHANGED <<db_dir, tree, ledger, context>>

\* db_path.mkdir(parents=True)
MakeDbPath ==
    /\ ~DbPathExists
    /\ \A e \in types : e.name = DbTypeName => e.dir
    /\ types' = types \cup {DbTypeDir}
    /\ db_dir' = TRUE
    /\ last' = NoCall
    /\ UNCHANGED <<tree, ledger, context>>

\* mkdir or write_text below db_path, in an existing directory
MakeEntry(parent, name, isDir) ==
    /\ EntryCount < MaxEntries
    /\ DbPathExists
    /\ Len(parent) < MaxDepth
    /\ parent = << >> \/ [path |-> parent, dir |-> TRUE] \in tree
    /\ [name |-> name, dir |-> isDir] \in LevelEntries(Len(parent) + 1)
    /\ \A e \in tree : e.path # Append(parent, name)
    /\ tree' = tree \cup {[path |-> Append(parent, name), dir |-> isDir]}
    /\ last' = NoCall
    /\ UNCHANGED <<types, db_dir, ledger, context>>

----------------------------------------------------------------------------
(* cleanup_stale_paths *)

\* the dicts a comprehension {key[d]: d for d in dirs} can build: one directory
\* per key; of the directories that share a key, the one iterdir() yields last
DictsOf(dirs, key) ==
    {D \in SUBSET dirs :
        /\ \A d \in dirs : \E c \in D : key[c] = key[d]
        /\ \A c1, c2 \in D : key[c1] = key[c2] => c1 = c2}

SchemaKey(d) == Replace(Name(d), SchemaPrefix)

TableKey(d) == Replace(Name(d), TablePrefix)

\* every directory, whatever its name
SchemaDirsAnyName(t) == {d \in Iterdir(t, << >>) : d.dir}

SchemaDirs(t) == {d \in Iterdir(t, << >>) : d.dir /\ StartsWith(Name(d), SchemaPrefix)}

TableDirs(t, schema_path) ==
    {d \in Iterdir(t, schema_path) : d.dir /\ StartsWith(Name(d), TablePrefix)}

existing_schemas(t) == DictsOf(SchemaDirs(t), [d \in SchemaDirs(t) |-> SchemaKey(d)])

existing_tables(t, schema_path) ==
    DictsOf(TableDirs(t, schema_path), [d \in TableDirs(t, schema_path) |-> TableKey(d)])

IsStaleSchema(schema_name) == schema_name \notin synced_schemas

IsStaleTable(schema_name, table_name) == table_name \notin TablesOf(schema_name)

StaleSchemas(ES) == {d \in ES : IsStaleSchema(SchemaKey(d))}

StaleTablesIn(ET, sd) == {d \in ET : IsStaleTable(SchemaKey(sd), TableKey(d))}

\* the table dicts of all retained schemas of ES, as one set of directories
TableDictChoices(t, ES) ==
    {ET \in SUBSET UNION {TableDirs(t, sd.path) : sd \in ES \ StaleSchemas(ES)} :
        \A sd \in ES \ StaleSchemas(ES) :
            {d \in ET : Parent(d.path) = sd.path} \in existing_tables(t, sd.path)}

StaleTables(ES, ET) ==
    UNION {StaleTablesIn({d \in ET : Parent(d.path) = sd.path}, sd) :
             sd \in ES \ StaleSchemas(ES)}

Paths(ds) == {d.path : d \in ds}

\* removed_count when the schema branch forgets its increment
RemovedCountTablesOnly(staleSchemas, staleTables) == Cardinality(staleTables)

\* removed_count: one per rmtree call
RemovedCount(staleSchemas, staleTables) ==
    Cardinality(staleSchemas) + Cardinality(staleTables)

\* what a failing shutil.rmtree(p) may have unlinked below p before it raised
PartialRemovals(t, p) ==
    {G \in SUBSET (Subtree(t, p) \ {e \in t : e.path = p}) :
        \A g \in G : Subtree(t, g.path) \subseteq G}

\* shutil.rmtree(path, ignore_errors=True): the loop goes on and the count is returned
OnRmtreeErrorIgnored(op, done, failed) ==
    Returned(op, Cardinality(done) + 1, done \cup {failed})

\* shutil.rmtree is called with the default ignore_errors=False: its error
\* leaves the function
OnRmtreeError(op, done, failed) == Raised(op, done \cup {failed})

cleanup_stale_paths ==
    /\ IF ~DbPathExists
       THEN /\ last' = Returned("cleanup_stale_paths", 0, {})
            /\ UNCHANGED tree
       ELSE \E ES \in existing_schemas(tree) :
            \E ET \in TableDictChoices(tree, ES) :
              LET stale == Paths(StaleSchemas(ES)) \cup Paths(StaleTables(ES, ET))
              IN /\ tree' = Rmtree(tree, stale)
                 /\ last' = Returned("cleanup_stale_paths",
                                     RemovedCount(StaleSchemas(ES), StaleTables(ES, ET)),
                                     stale)
    /\ UNCHANGED <<types, db_dir, ledger, context>>

\* the same call when one shutil.rmtree raises (a filesystem error): the
\* schemas handled before it are done, the rest of the loop never runs
cleanup_stale_paths_raises ==
    /\ DbPathExists
    /\ \E ES \in existing_schemas(tree) :
       \E ET \in TableDictChoices(tree, ES) :
       \E cur \in ES :
       \E before \in SUBSET (ES \ {cur}) :
         LET curStale == IF cur \in StaleSchemas(ES) THEN {cur}
                         ELSE StaleTablesIn({d \in ET : Parent(d.path) = cur.path}, cur)
             doneBefore ==
                 (StaleSchemas(ES) \cap before)
                 \cup UNION {StaleTablesIn({d \in ET : Parent(d.path) = sd.path}, sd) :
                               sd \in before \ StaleSchemas(ES)}
         IN \E failed \in curStale :
            \E doneCur \in SUBSET (curStale \ {failed}) :
            \E G \in PartialRemovals(tree, failed.path) :
              /\ tree' = Rmtree(tree, Paths(doneBefore \cup doneCur)) \ G
              /\ last' = OnRmtreeError("cleanup_stale_paths",
                                       Paths(doneBefore \cup doneCur), failed.path)
    /\ UNCHANGED <<types, db_dir, ledger, context>>

----------------------------------------------------------------------------
(* cleanup_stale_database_types *)

\* the base_path arguments: the output root, and a path that does not exist
BasePaths == {"databases", "nonexistent"}

BasePathExists(base_path) == base_path = "databases"

TypeDirs == {d \in types : d.dir /\ StartsWith(d.name, TypePrefix)}

\* membership of the bare type, without the type= prefix
IsStaleTypeBare(name, active_db_types) == AfterPrefix(name) \notin active_db_types

IsStaleType(name, active_db_types) == name \notin active_db_types

StaleTypes(active_db_types) == {d \in TypeDirs : IsStaleType(d.name, active_db_types)}

TypeNames(ds) == {d.name : d \in ds}

\* the active_db_types arguments
ActiveTypeSets == {{}, {DbTypeName}, {DbTypeName, <<"type=", "postgres">>},
                   {<<"duckdb">>, <<"type=", "postgres">>}}

cleanup_stale_database_types(base_path, active_db_types) ==
    /\ IF ~BasePathExists(base_path)
       THEN /\ last' = Returned("cleanup_stale_database_types", 0, {})
            /\ UNCHANGED <<types, db_dir, tree>>
       ELSE LET stale == StaleTypes(active_db_types)
            IN /\ types' = types \ stale
               /\ db_dir' = (db_dir /\ DbTypeDir \notin stale)
               /\ tree' = IF DbTypeDir \in stale THEN {} ELSE tree
               /\ last' = Returned("cleanup_stale_database_types",
                                   Cardinality(stale), TypeNames(stale))
    /\ UNCHANGED <<ledger, context>>

\* the same call when one shutil.rmtree raises: the directories iterdir()
\* yielded before the failing one are gone
cleanup_stale_database_types_raises(active_db_types) ==
    /\ \E failed \in StaleTypes(active_db_types) :
       \E done \in SUBSET (StaleTypes(active_db_types) \ {failed}) :
         /\ types' = types \ done
         /\ IF failed = DbTypeDir
            THEN \E G \in PartialRemovals(tree, << >>) :
                 \E db_removed \in BOOLEAN :
                   /\ db_removed => tree \ G = {}
                   /\ tree' = tree \ G
                   /\ db_dir' = (db_dir /\ ~db_removed)
            ELSE /\ db_dir' = (db_dir /\ DbTypeDir \notin done)
                 /\ tree' = IF DbTypeDir \in done THEN {} ELSE tree
         /\ last' = OnRmtreeError("cleanup_stale_database_types",
                                  TypeNames(done), failed.name)
    /\ UNCHANGED <<ledger, context>>

----------------------------------------------------------------------------
(* ClickHouseDatabaseContext *)

MaxLimit == 2       \* the largest limit passed to preview

Limits == 0..MaxLimit

Min(a, b) == IF a <= b THEN a ELSE b

\* a query that ignores its LIMIT clause
LimitIgnored(rows, n) == rows

\* SELECT ... LIMIT n: the first n rows the table holds
Limit(rows, n) == SubSeq(rows, 1, Min(n, Len(rows)))

\* a coercion that hands every value over as fetched
CoerceValueNever(val) == val

\* if val is not None and not isinstance(val, (str, int, float, bool, list, dict)): str(val)
CoerceValue(val) ==
    IF val.kind # "null" /\ val.kind \notin JsonKinds THEN Str(val) ELSE val

normalize_row(row_dict) == [key \in DOMAIN row_dict |-> CoerceValue(row_dict[key])]

show_create_table(answer) == IF answer.ok THEN Some(Strip(answer.cell)) ELSE None

get_table_comment(answer) ==
    IF ~answer.ok \/ answer.cell = << >> THEN None ELSE OrNone(Strip(answer.cell))

HasNullable(type) == \E i \in 1..Len(type) : type[i] = "Nullable"

columns_from_system(c, ok) ==
    IF ok
    THEN [i \in 1..Len(SystemColumns(c)) |->
            [name |-> SystemColumns(c)[i].name,
             type |-> SystemColumns(c)[i].type,
             nullable |-> HasNullable(SystemColumns(c)[i].type),
             description |-> None]]
    ELSE << >>

\* DatabaseContext._format_type: !int32 -> int32 NOT NULL
format_type(dtype) ==
    IF StartsWith(dtype.raw, "!") THEN Append(Tail(dtype.raw), " NOT NULL") ELSE dtype.raw

\* the list columns() builds from table.schema()
SchemaColumns(schema) ==
    [i \in 1..Len(schema) |->
        [name |-> schema[i].name,
         type |-> format_type(schema[i].dtype),
         nullable |-> schema[i].dtype.nullable,
         description |-> None]]

\* [{"create_table": ddl}] if ddl else []
DdlRows(ddl) ==
    IF Truthy(ddl) THEN <<[create_table |-> Value("str", ddl.text)]>> ELSE << >>

\* self.table and one read through it: the handle is looked up unless it is
\* cached, and the lookup or the read may fail
DirectReads(c, read) ==
    {[ref |-> TRUE, err |-> e, queries |-> (IF ch_ref[c] THEN {} ELSE {"table"}) \cup {read}] :
        e \in {NoError} \cup DirectReadErrors(c)}
    \cup {[ref |-> ch_ref[c], err |-> e, queries |-> {"table"}] :
            e \in IF ch_ref[c] THEN {} ELSE DirectReadErrors(c)}

\* a context that forgets the flag and tries the direct read again
InFallbackForgotten(c) == FALSE

\* if self._direct_select_disallowed:
InFallback(c) == ch_flag[c]

\* a flag that follows the outcome of the last read
FlagAfterLastRead(c, exc) == [ch_flag EXCEPT ![c] = is_direct_select_disallowed(exc)]

\* if _is_direct_select_disallowed(e): self._direct_select_disallowed = True;
\* a call that meets no such error (exc = NoError included) leaves the flag
FlagAfter(c, exc) == [ch_flag EXCEPT ![c] = @ \/ is_direct_select_disallowed(exc)]

ClickHouseCall(c, op) ==
    [ContextCall("clickhouse", c, op) EXCEPT !.fallback = ch_flag[c]]

Stores == <<types, db_dir, tree, ledger, last, configs, pipeline>>

\* ddl = _show_create_table(...); return [{"create_table": ddl}] if ddl else []
ReturnDdl(call) ==
    \E answer \in ShowCreateAnswers(call.ctx) :
        ctx_last' = [call EXCEPT !.queries = @ \cup {"SHOW CREATE TABLE"},
                                 !.cat_failed = ~answer.ok,
                                 !.catalog = <<answer>>,
                                 !.rows = DdlRows(show_create_table(answer))]

CH_description(c) ==
    /\ \E answer \in CommentAnswers :
         ctx_last' = [ClickHouseCall(c, "description") EXCEPT
                         !.queries = {"system.tables"},
                         !.cat_failed = ~answer.ok,
                         !.text = get_table_comment(answer)]
    /\ UNCHANGED <<ch_flag, ch_ref, Stores>>

CH_indexes(c) ==
    /\ \E answer \in ShowCreateAnswers(c) :
         ctx_last' = [ClickHouseCall(c, "indexes") EXCEPT
                         !.queries = {"SHOW CREATE TABLE"},
                         !.cat_failed = ~answer.ok,
                         !.text = show_create_table(answer)]
    /\ UNCHANGED <<ch_flag, ch_ref, Stores>>

CH_row_count(c) ==
    /\ IF InFallback(c)
       THEN /\ ctx_last' = ClickHouseCall(c, "row_count")
            /\ ch_flag' = FlagAfter(c, NoError)
            /\ UNCHANGED ch_ref
       ELSE \E d \in DirectReads(c, "count") :
            LET call == [ClickHouseCall(c, "row_count") EXCEPT
                            !.queries = d.queries, !.err = d.err]
            IN /\ ch_ref' = [ch_ref EXCEPT ![c] = d.ref]
               /\ ch_flag' = FlagAfter(c, d.err)
               /\ ctx_last' =
                    IF d.err = NoError THEN [call EXCEPT !.count = Len(TableRows(c))]
                    ELSE IF is_direct_select_disallowed(d.err) THEN call
                    ELSE [call EXCEPT !.raised = TRUE]
    /\ UNCHANGED Stores

CH_column_count(c) ==
    /\ IF InFallback(c)
       THEN /\ \E ok \in BOOLEAN :
                 ctx_last' = [ClickHouseCall(c, "column_count") EXCEPT
                                 !.queries = {"system.columns"},
                                 !.cat_failed = ~ok,
                                 !.catalog = <<SystemColumnsAnswer(ok)>>,
                                 !.count = Len(columns_from_system(c, ok))]
            /\ ch_flag' = FlagAfter(c, NoError)
            /\ UNCHANGED ch_ref
       ELSE \E d \in DirectReads(c, "schema") :
            LET call == [ClickHouseCall(c, "column_count") EXCEPT
                            !.queries = d.queries, !.err = d.err]
            IN /\ ch_ref' = [ch_ref EXCEPT ![c] = d.ref]
               /\ ch_flag' = FlagAfter(c, d.err)
               /\ IF d.err = NoError
                  THEN ctx_last' = [call EXCEPT !.count = Len(TableSchema(c))]
                  ELSE IF is_direct_select_disallowed(d.err)
                  THEN \E ok \in BOOLEAN :
                         ctx_last' = [call EXCEPT
                                         !.queries = @ \cup {"system.columns"},
                                         !.cat_failed = ~ok,
                                         !.catalog = <<SystemColumnsAnswer(ok)>>,
                                         !.count = Len(columns_from_system(c, ok))]
                  ELSE ctx_last' = [call EXCEPT !.raised = TRUE]
    /\ UNCHANGED Stores

CH_columns(c) ==
    /\ IF InFallback(c)
       THEN /\ ctx_last' = ClickHouseCall(c, "columns")
            /\ ch_flag' = FlagAfter(c, NoError)
            /\ UNCHANGED ch_ref
       ELSE \E d \in DirectReads(c, "schema") :
            LET call == [ClickHouseCall(c, "columns") EXCEPT
                            !.queries = d.queries, !.err = d.err]
            IN /\ ch_ref' = [ch_ref EXCEPT ![c] = d.ref]
               /\ ch_flag' = FlagAfter(c, d.err)
               /\ IF d.err = NoError
                  THEN ctx_last' = [call EXCEPT !.rows = SchemaColumns(TableSchema(c))]
                  ELSE IF is_direct_select_disallowed(d.err)
                  THEN \E ok \in BOOLEAN :
                         ctx_last' = [call EXCEPT
                                         !.queries = @ \cup {"system.columns"},
                                         !.cat_failed = ~ok,
                                         !.catalog = <<SystemColumnsAnswer(ok)>>,
                                         !.rows = columns_from_system(c, ok)]
                  ELSE ctx_last' = [call EXCEPT !.raised = TRUE]
    /\ UNCHANGED Stores

CH_preview(c, limit) ==
    /\ IF InFallback(c)
       THEN /\ ReturnDdl([ClickHouseCall(c, "preview") EXCEPT !.limit = limit])
            /\ ch_flag' = FlagAfter(c, NoError)
            /\ UNCHANGED ch_ref
       ELSE \E d \in DirectReads(c, "schema") :
            LET call == [ClickHouseCall(c, "preview") EXCEPT
                            !.limit = limit, !.queries = d.queries, !.err = d.err]
            IN /\ ch_ref' = [ch_ref EXCEPT ![c] = d.ref]
               /\ IF d.err # NoError
                  THEN /\ ch_flag' = FlagAfter(c, d.err)
                       /\ IF is_direct_select_disallowed(d.err)
                          THEN ReturnDdl(call)
                          ELSE ctx_last' = [call EXCEPT !.raised = TRUE]
                  ELSE IF TableSchema(c) = << >>
                  THEN /\ UNCHANGED ch_flag
                       /\ ReturnDdl(call)
                  ELSE \E e \in {NoError} \cup DirectReadErrors(c) :
                         /\ ch_flag' = FlagAfter(c, e)
                         /\ IF e = NoError
                            THEN ctx_last' =
                                   [call EXCEPT
                                      !.queries = @ \cup {"select"},
                                      !.fetched = Limit(TableRows(c), limit),
                                      !.rows = [i \in 1..Len(Limit(TableRows(c), limit)) |->
                                                  normalize_row(Limit(TableRows(c), limit)[i])]]
                            ELSE ReturnDdl([call EXCEPT !.queries = @ \cup {"select"},
                                                        !.err = e])
    /\ UNCHANGED Stores

----------------------------------------------------------------------------
(* DatabaseContext: the generic context *)

GenericCall(op) == ContextCall("generic", OrdersTable, op)

\* an exception of self.table or of a query leaves the method
Raise(call) == [call EXCEPT !.err = TimeoutError, !.raised = TRUE]

\* the rows preview() builds from the rows it fetched
CoerceRows(fetched) ==
    [i \in 1..Len(fetched) |-> [key \in DOMAIN fetched[i] |-> CoerceValue(fetched[i][key])]]

DC_columns ==
    /\ \E ok \in BOOLEAN :
         ctx_last' =
           IF ok THEN [GenericCall("columns") EXCEPT
                          !.queries = {"table", "schema"},
                          !.rows = SchemaColumns(TableSchema(OrdersTable))]
           ELSE Raise([GenericCall("columns") EXCEPT !.queries = {"table"}])
    /\ UNCHANGED <<ch_flag, ch_ref, Stores>>

DC_preview(limit) ==
    /\ \E ok \in BOOLEAN :
         LET call == [GenericCall("preview") EXCEPT
                         !.limit = limit, !.queries = {"table", "select"}]
         IN ctx_last' =
              IF ok THEN [call EXCEPT
                             !.fetched = Limit(TableRows(OrdersTable), limit),
                             !.rows = CoerceRows(Limit(TableRows(OrdersTable), limit))]
              ELSE Raise(call)
    /\ UNCHANGED <<ch_flag, ch_ref, Stores>>

DC_row_count ==
    /\ \E ok \in BOOLEAN :
         LET call == [GenericCall("row_count") EXCEPT !.queries = {"table", "count"}]
         IN ctx_last' = IF ok THEN [call EXCEPT !.count = Len(TableRows(OrdersTable))]
                        ELSE Raise(call)
    /\ UNCHANGED <<ch_flag, ch_ref, Stores>>

DC_column_count ==
    /\ \E ok \in BOOLEAN :
         LET call == [GenericCall("column_count") EXCEPT !.queries = {"table", "schema"}]
         IN ctx_last' = IF ok THEN [call EXCEPT !.count = Len(TableSchema(OrdersTable))]
                        ELSE Raise(call)
    /\ UNCHANGED <<ch_flag, ch_ref, Stores>>

\* partition_columns returns [], description and indexes return None
DC_partition_columns ==
    /\ ctx_last' = GenericCall("partition_columns")
    /\ UNCHANGED <<ch_flag, ch_ref, Stores>>

DC_description ==
    /\ ctx_last' = GenericCall("description")
    /\ UNCHANGED <<ch_flag, ch_ref, Stores>>

DC_indexes ==
    /\ ctx_last' = GenericCall("indexes")
    /\ UNCHANGED <<ch_flag, ch_ref, Stores>>

----------------------------------------------------------------------------
(* BigQueryDatabaseContext *)

BigQueryCall(op) == ContextCall("bigquery", OrdersTable, op)

\* what the two INFORMATION_SCHEMA.COLUMNS queries answer
PartitionAnswers == {<< >>, <<"day">>, <<"day", "day">>}

ClusteringAnswers == {<< >>, <<"day", "region">>, <<"region", "region">>}

\* columns.extend(row[0] for row in result if row[0] not in columns)
RECURSIVE ExtendUnique(_, _)
ExtendUnique(columns, result) ==
    IF result = << >> THEN columns
    ELSE IF \E i \in 1..Len(columns) : columns[i] = Head(result)
    THEN ExtendUnique(columns, Tail(result))
    ELSE ExtendUnique(Append(columns, Head(result)), Tail(result))

\* the rows a catalog query returned
Fetched(rows) == [ok |-> TRUE, cell |-> rows]

\* a second extend that appends every clustering row
get_bq_partition_columnsUnfiltered(partition, clustering) == partition \o clustering

get_bq_partition_columns(partition, clustering) == ExtendUnique(partition, clustering)

\* an except clause that lets the error of the lookup reach the caller
PropagateLookupError(call) == [call EXCEPT !.cat_failed = TRUE, !.raised = TRUE]

\* except Exception: the lookup failed and the method returns its empty value
SwallowLookupError(call) == [call EXCEPT !.cat_failed = TRUE]

BQ_partition_columns ==
    /\ \E failed \in BOOLEAN, partition \in PartitionAnswers, clustering \in ClusteringAnswers :
         LET call == [BigQueryCall("partition_columns") EXCEPT
                         !.queries = {"INFORMATION_SCHEMA.COLUMNS"}]
         IN ctx_last' =
              IF failed THEN SwallowLookupError(call)
              ELSE [call EXCEPT !.catalog = <<Fetched(partition), Fetched(clustering)>>,
                                !.names = get_bq_partition_columns(partition, clustering)]
    /\ UNCHANGED <<ch_flag, ch_ref, Stores>>

\* what INFORMATION_SCHEMA.TABLE_OPTIONS answers: the option_value of each row
OptionAnswers ==
    {<< >>,
     << << >>, <<"\"", "Orders placed", "\"">> >>,
     << <<"\"", "\"">> >>,
     << <<" ", "\"", "Orders placed", "\"", "\n">> >>}

\* str.strip('"')
RECURSIVE StripQuotes(_)
StripQuotes(text) ==
    IF text = << >> THEN text
    ELSE IF Head(text) = "\"" THEN StripQuotes(Tail(text))
    ELSE IF text[Len(text)] = "\"" THEN StripQuotes(SubSeq(text, 1, Len(text) - 1))
    ELSE text

\* for row in ...: if row[0]: return str(row[0]).strip().strip('"') or None
RECURSIVE bq_description(_)
bq_description(rows) ==
    IF rows = << >> THEN None
    ELSE IF Head(rows) # << >> THEN OrNone(StripQuotes(Strip(Head(rows))))
    ELSE bq_description(Tail(rows))

BQ_description ==
    /\ \E failed \in BOOLEAN, rows \in OptionAnswers :
         LET call == [BigQueryCall("description") EXCEPT
                         !.queries = {"INFORMATION_SCHEMA.TABLE_OPTIONS"}]
         IN ctx_last' = IF failed THEN SwallowLookupError(call)
                        ELSE [call EXCEPT !.text = bq_description(rows)]
    /\ UNCHANGED <<ch_flag, ch_ref, Stores>>

\* the column descriptions a catalog holds: column name -> description
DescriptionAnswers == {<< >>, [id |-> <<"order id">>]}

\* col["description"] = col_descs.get(col["name"])
Describe(cols, col_descs) ==
    [i \in 1..Len(cols) |->
        IF cols[i].name \in DOMAIN col_descs
        THEN [cols[i] EXCEPT !.description = Some(col_descs[cols[i].name])]
        ELSE cols[i]]

BQ_columns ==
    /\ \E ok \in BOOLEAN, failed \in BOOLEAN, col_descs \in DescriptionAnswers :
         LET call == [BigQueryCall("columns") EXCEPT !.queries = {"table", "schema"}]
             cols == SchemaColumns(TableSchema(OrdersTable))
         IN ctx_last' =
              IF ~ok THEN Raise([call EXCEPT !.queries = {"table"}])
              ELSE IF failed
              THEN [call EXCEPT !.queries = @ \cup {"INFORMATION_SCHEMA.COLUMN_FIELD_PATHS"},
                                !.cat_failed = TRUE,
                                !.rows = cols]
              ELSE [call EXCEPT !.queries = @ \cup {"INFORMATION_SCHEMA.COLUMN_FIELD_PATHS"},
                                !.rows = Describe(cols, col_descs)]
    /\ UNCHANGED <<ch_flag, ch_ref, Stores>>

----------------------------------------------------------------------------
(* RedshiftDatabaseContext *)

RedshiftCall(op) == ContextCall("redshift", OrdersTable, op)

\* the rows of information_schema.columns, ORDER BY ordinal_position
InformationSchemaColumns ==
    <<[column_name |-> "id", data_type |-> "bigint", is_nullable |-> "NO"],
      [column_name |-> "payload", data_type |-> "super", is_nullable |-> "YES"]>>

type_map(data_type) ==
    CASE data_type = "integer" -> "int32"
      [] data_type = "bigint" -> "int64"
      [] data_type = "smallint" -> "int16"
      [] data_type = "boolean" -> "boolean"
      [] data_type = "real" -> "float32"
      [] data_type = "double precision" -> "float64"
      [] data_type \in {"character varying", "character", "text"} -> "string"
      [] data_type = "date" -> "date"
      [] data_type \in {"timestamp without time zone", "timestamp with time zone"} -> "timestamp"
      [] OTHER -> "string"

format_redshift_type(data_type, is_nullable) ==
    IF ~is_nullable THEN <<type_map(data_type), " NOT NULL">> ELSE <<type_map(data_type)>>

\* _fetch_column_descriptions: {} when the pg_description query fails
fetch_column_descriptions(failed, col_descs) == IF failed THEN << >> ELSE col_descs

\* the list columns() builds from the rows of information_schema.columns
RedshiftColumns(result, col_descs) ==
    [i \in 1..Len(result) |->
        [name |-> result[i].column_name,
         type |-> format_redshift_type(result[i].data_type, result[i].is_nullable = "YES"),
         nullable |-> result[i].is_nullable = "YES",
         description |-> IF result[i].column_name \in DOMAIN col_descs
                         THEN Some(col_descs[result[i].column_name]) ELSE None]]

\* a listing query whose error is swallowed: no column is reported
OnListingErrorSwallowed(call) == [call EXCEPT !.err = TimeoutError]

\* the information_schema.columns query runs outside any try: its error
\* leaves columns()
OnListingError(call) == Raise(call)

\* columns() as called by a method op of the context
redshift_columns(call, ok, failed, col_descs) ==
    LET asked == [call EXCEPT
                     !.queries = @ \cup {"pg_catalog.pg_description", "information_schema.columns"},
                     !.cat_failed = failed]
    IN IF ok THEN [asked EXCEPT
                     !.rows = RedshiftColumns(InformationSchemaColumns,
                                              fetch_column_descriptions(failed, col_descs))]
       ELSE OnListingError(asked)

RS_columns ==
    /\ \E ok \in BOOLEAN, failed \in BOOLEAN, col_descs \in DescriptionAnswers :
         ctx_last' = redshift_columns(RedshiftCall("columns"), ok, failed, col_descs)
    /\ UNCHANGED <<ch_flag, ch_ref, Stores>>

RS_column_count ==
    /\ \E ok \in BOOLEAN, failed \in BOOLEAN, col_descs \in DescriptionAnswers :
         LET cols == redshift_columns(RedshiftCall("column_count"), ok, failed, col_descs)
         IN ctx_last' = IF cols.raised THEN cols
                        ELSE [cols EXCEPT !.count = Len(cols.rows), !.rows = << >>]
    /\ UNCHANGED <<ch_flag, ch_ref, Stores>>

\* row_dict[col_name] = row[i], coerced, for the column names of columns()
RedshiftRows(fetched, cols) ==
    [i \in 1..Len(fetched) |->
        [col_name \in {cols[j].name : j \in 1..Len(cols)} |->
            IF col_name \in DOMAIN fetched[i] THEN CoerceValue(fetched[i][col_name])
            ELSE Value("null", <<"None">>)]]

RS_preview(limit) ==
    /\ \E selected \in BOOLEAN, ok \in BOOLEAN, failed \in BOOLEAN,
          col_descs \in DescriptionAnswers :
         LET call == [RedshiftCall("preview") EXCEPT !.limit = limit, !.queries = {"select"}]
             cols == redshift_columns(call, ok, failed, col_descs)
         IN ctx_last' =
              IF ~selected THEN Raise(call)
              ELSE IF cols.raised THEN cols
              ELSE [cols EXCEPT
                      !.fetched = Limit(TableRows(OrdersTable), limit),
                      !.rows = RedshiftRows(Limit(TableRows(OrdersTable), limit), cols.rows)]
    /\ UNCHANGED <<ch_flag, ch_ref, Stores>>

RS_row_count ==
    /\ \E ok \in BOOLEAN :
         LET call == [RedshiftCall("row_count") EXCEPT !.queries = {"count"}]
         IN ctx_last' = IF ok THEN [call EXCEPT !.count = Len(TableRows(OrdersTable))]
                        ELSE Raise(call)
    /\ UNCHANGED <<ch_flag, ch_ref, Stores>>

\* if row and row[0]: return str(row[0]).strip() or None
rs_description(answer) ==
    IF answer.cell = << >> THEN None ELSE OrNone(Strip(answer.cell))

RS_description ==
    /\ \E answer \in CommentAnswers :
         LET call == [RedshiftCall("description") EXCEPT
                         !.queries = {"pg_catalog.pg_description"}]
         IN ctx_last' = IF ~answer.ok THEN SwallowLookupError(call)
                        ELSE [call EXCEPT !.text = rs_description(answer)]
    /\ UNCHANGED <<ch_flag, ch_ref, Stores>>

----------------------------------------------------------------------------

\* one database's sync and its cleanup, below an existing or missing db_path
----------------------------------------------------------------------------
(* get_schemas of the database configs *)

Contexts == <<ch_flag, ch_ref, ctx_last>>

SYSTEM_DATABASES == {<<"INFORMATION_SCHEMA">>, <<"information_schema">>, <<"system">>}

\* an include-list that filters nothing
OnlyIncludedIgnored(schemas, include) == schemas

\* [s for s in schemas if s in self.schemas_include]
OnlyIncluded(schemas, include) ==
    SelectSeq(schemas, LAMBDA s : s \in Elements(include.items))

ClickHouse_get_schemas(include, listable, listing) ==
    IF listable
    THEN LET schemas == SelectSeq(listing, LAMBDA s : s \notin SYSTEM_DATABASES)
         IN IF include.some /\ include.items # << >>
            THEN OnlyIncluded(schemas, include)
            ELSE schemas
    ELSE << >>

\* nspname NOT LIKE 'pg_%': in LIKE the underscore stands for any one character
LikePg(name) == Len(name) >= 2 /\ name[1] = "pg"

\* the rows of the pg_namespace query, ORDER BY nspname
NamespaceQuery(namespaces) ==
    SelectSeq(namespaces, LAMBDA n : ~LikePg(n) /\ n # InformationSchema)

Redshift_get_schemas(schema_name, query_failed, listable, namespaces) ==
    IF Truthy(schema_name) THEN <<schema_name.text>>
    ELSE IF ~query_failed THEN NamespaceQuery(namespaces)
    ELSE IF listable THEN namespaces
    ELSE <<<<"public">>>>

BigQuery_get_schemas(dataset_id, listable, listing) ==
    IF Truthy(dataset_id) THEN <<dataset_id.text>>
    ELSE IF listable THEN listing
    ELSE << >>

ClickHouseConfig_get_schemas ==
    /\ \E include \in Includes, listable \in BOOLEAN, listing \in Listings(ClickHouseDatabases) :
         gs_last' = [SchemasCall("clickhouse") EXCEPT
                        !.include = include, !.listable = listable,
                        !.listing = IF listable THEN listing ELSE << >>,
                        !.schemas = ClickHouse_get_schemas(include, listable, listing)]
    /\ UNCHANGED <<types, db_dir, tree, ledger, last, Contexts, pipeline>>

RedshiftConfig_get_schemas ==
    /\ \E schema_name \in Pins(Analytics), query_failed \in BOOLEAN, listable \in BOOLEAN,
          namespaces \in Listings(RedshiftNamespaces) :
         gs_last' = [SchemasCall("redshift") EXCEPT
                        !.pinned = schema_name, !.listable = listable,
                        !.listing = namespaces,
                        !.query_failed = ~Truthy(schema_name) /\ query_failed,
                        !.schemas = Redshift_get_schemas(schema_name, query_failed,
                                                         listable, namespaces)]
    /\ UNCHANGED <<types, db_dir, tree, ledger, last, Contexts, pipeline>>

BigQueryConfig_get_schemas ==
    /\ \E dataset_id \in Pins(<<"sales">>), listable \in BOOLEAN,
          listing \in Listings(BigQueryDatasets) :
         gs_last' = [SchemasCall("bigquery") EXCEPT
                        !.pinned = dataset_id, !.listable = listable,
                        !.listing = IF listable THEN listing ELSE << >>,
                        !.schemas = BigQuery_get_schemas(dataset_id, listable, listing)]
    /\ UNCHANGED <<types, db_dir, tree, ledger, last, Contexts, pipeline>>

NextSchemas ==
    \/ ClickHouseConfig_get_schemas
    \/ RedshiftConfig_get_schemas
    \/ BigQueryConfig_get_schemas

SpecSchemas == Init /\ [][NextSchemas]_vars

----------------------------------------------------------------------------
(* Accessors: generate and truncate_middle *)

AccessorKinds == {"columns", "preview", "description", "profiling"}

AccessorTables == {"my_table", "orders"}

\* the exceptions data retrieval through the context can end in
RetrievalErrors == {TimeoutError, DirectSelectError}

\* the first line of every artifact: the table name as a heading
Heading(table) == <<"# ", table, "\n">>

ErrorPrefix == "Error generating content: "

\* the artifact of a table whose data was retrieved
Rendered(kind, table) == Heading(table) \o <<kind>>

\* the minimal artifact that replaces a failed retrieval
ErrorArtifact(table, err) == Heading(table) \o <<ErrorPrefix>> \o err.msg

\* a generate without the except clause: the error reaches the caller
generateUncaught(kind, table, err) ==
    IF err = NoError THEN [raised |-> FALSE, text |-> Rendered(kind, table)]
    ELSE [raised |-> TRUE, text |-> << >>]

generate(kind, table, err) ==
    IF err = NoError THEN [raised |-> FALSE, text |-> Rendered(kind, table)]
    ELSE [raised |-> FALSE, text |-> ErrorArtifact(table, err)]

Accessor_generate(kind, table, err) ==
    /\ acc_last' = [NoAccessorCall EXCEPT
                       !.op = "generate", !.kind = kind, !.table = table, !.err = err,
                       !.raised = generate(kind, table, err).raised,
                       !.result = generate(kind, table, err).text]
    /\ UNCHANGED <<types, db_dir, tree, ledger, last, Contexts, configs, sync>>

\* the ellipsis marker, a character a token
Marker == <<".", ".", ".">>

Characters == {"a", "b"}

\* the texts of at most n characters
RECURSIVE TextsUpTo(_)
TextsUpTo(n) ==
    IF n = 0 THEN {<< >>}
    ELSE TextsUpTo(n - 1) \cup
         {Append(t, c) : t \in {u \in TextsUpTo(n - 1) : Len(u) = n - 1}, c \in Characters}

MaxLengths == (0 - 1)..(MaxText + 1)

TakeFirst(text, k) == SubSeq(text, 1, k)

TakeLast(text, k) == SubSeq(text, Len(text) - k + 1, Len(text))

\* a truncation that keeps the marker whatever max_length is
truncate_middleAlwaysMarked(text, max_length) ==
    IF Len(text) <= max_length THEN text
    ELSE LET keep == IF max_length >= Len(Marker) THEN max_length - Len(Marker) ELSE 0
             tail == keep \div 2
         IN TakeFirst(text, keep - tail) \o Marker \o TakeLast(text, tail)

\* text at or below max_length is returned as it is; a longer text keeps a
\* prefix and a suffix around the marker, max_length characters in all, and
\* only a prefix when the marker does not fit
truncate_middle(text, max_length) ==
    IF Len(text) <= max_length THEN text
    ELSE IF max_length < Len(Marker)
    THEN TakeFirst(text, IF max_length > 0 THEN max_length ELSE 0)
    ELSE LET keep == max_length - Len(Marker)
             tail == keep \div 2
         IN TakeFirst(text, keep - tail) \o Marker \o TakeLast(text, tail)

Truncate(text, max_length) ==
    /\ acc_last' = [NoAccessorCall EXCEPT
                       !.op = "truncate_middle", !.text = text, !.max_length = max_length,
                       !.result = truncate_middle(text, max_length)]
    /\ UNCHANGED <<types, db_dir, tree, ledger, last, Contexts, configs, sync>>

NextAccessors ==
    \/ \E kind \in AccessorKinds, table \in AccessorTables,
          err \in {NoError} \cup RetrievalErrors : Accessor_generate(kind, table, err)
    \/ \E text \in TextsUpTo(MaxText), max_length \in MaxLengths : Truncate(text, max_length)

SpecAccessors == Init /\ [][NextAccessors]_vars

----------------------------------------------------------------------------
(* The sync orchestrator: sync_database and the run over all databases.    *)
(* The file tree is left aside here: every database has a db_path of its   *)
(* own, and what the run writes is not what the claims below are about.    *)

Public == <<"public">>
Another == <<"another">>
Users == <<"users">>
Orders == <<"orders">>

\* what get_schemas can return, and what the warehouse lists in a schema
SchemaLists == {<< >>, <<Public>>, <<Public, Another>>}

TableLists == {<< >>, <<Users>>, <<Users, Orders>>}

\* a `schema.table` glob pattern; `*` stands for any name
Any == <<"*">>

Pattern(schema, table) == [schema |-> schema, table |-> table]

IncludeFilters == {{}, {Pattern(Public, Users)}, {Pattern(Public, Any)}}

ExcludeFilters == {{}, {Pattern(Public, Orders)}, {Pattern(Any, Users)}}

Matches(p, schema, table) ==
    /\ p.schema \in {Any, schema}
    /\ p.table \in {Any, table}

\* a filter that forgets the deny-list
matches_patternIncludeOnly(include, exclude, schema, table) ==
    include = {} \/ \E p \in include : Matches(p, schema, table)

\* include is an allow-list when it holds a pattern; exclude is a deny-list
\* applied after it
matches_pattern(include, exclude, schema, table) ==
    /\ include = {} \/ \E p \in include : Matches(p, schema, table)
    /\ ~\E p \in exclude : Matches(p, schema, table)

\* the run moves to the next database, or to the global cleanup after the last
NextDatabase(run) ==
    IF run.db < Len(Databases)
    THEN [run EXCEPT !.pc = "connect", !.db = @ + 1,
                     !.schemas = << >>, !.schema = << >>, !.tables = << >>]
    ELSE [run EXCEPT !.pc = "types",
                     !.schemas = << >>, !.schema = << >>, !.tables = << >>]

\* the sync of the database at hand ends in an error
Aborted(run) == [run EXCEPT !.status[run.db] = "aborted", !.pc = "cleanup"]

Elsewhere == <<types, db_dir, tree, calls, last, Contexts, configs, acc_last>>

StartRun(include, exclude) ==
    /\ sync.pc = "idle"
    /\ sync' = [sync EXCEPT !.pc = "connect", !.include = include, !.exclude = exclude]
    /\ UNCHANGED <<ledger, Elsewhere>>

\* Connect: a fresh DatabaseSyncState for the database; a connection failure
\* aborts this database and the run goes on with the next one
Connect(ok) ==
    /\ sync.pc = "connect"
    /\ IF ok
       THEN /\ sync' = [sync EXCEPT !.pc = "resolve", !.status[sync.db] = "syncing",
                                    !.enumerated = {}, !.degraded = {}]
            /\ synced_schemas' = {}
            /\ synced_tables' = << >>
            /\ schemas_synced' = 0
            /\ tables_synced' = 0
       ELSE /\ sync' = Aborted(sync)
            /\ UNCHANGED <<synced_schemas, synced_tables, schemas_synced, tables_synced>>
    /\ UNCHANGED Elsewhere

\* ResolveSchemas: the schemas get_schemas returns; its failure is a failure
\* of the database
ResolveSchemas(ok, schemas) ==
    /\ sync.pc = "resolve"
    /\ sync' = IF ok THEN [sync EXCEPT !.pc = "schema", !.schemas = schemas]
               ELSE Aborted(sync)
    /\ UNCHANGED <<ledger, Elsewhere>>

\* the tables of the listing that pass the filters, in the order listed
Filtered(run, schema, listing) ==
    SelectSeq(listing, LAMBDA t : matches_pattern(run.include, run.exclude, schema, t))

\* ResolveTables: a schema that cannot be listed is skipped and stays
\* unrecorded; a listed schema is recorded and its filtered tables are next
ResolveTables(ok, listing) ==
    /\ sync.pc = "schema"
    /\ sync.schemas # << >>
    /\ LET schema == Head(sync.schemas)
           tables == Filtered(sync, schema, listing)
       IN IF ~ok
          THEN /\ sync' = [sync EXCEPT !.schemas = Tail(@)]
               /\ UNCHANGED <<synced_schemas, schemas_synced>>
          ELSE /\ sync' = [sync EXCEPT
                              !.schema = schema,
                              !.tables = tables,
                              !.enumerated = @ \cup {<<schema, listing[i]>> : i \in 1..Len(listing)},
                              !.pc = IF tables = << >> THEN "schema" ELSE "table",
                              !.schemas = IF tables = << >> THEN Tail(@) ELSE @]
               /\ synced_schemas' = synced_schemas \cup {schema}
               /\ schemas_synced' = SchemasSyncedAfterAdd(schema)
    /\ UNCHANGED <<synced_tables, tables_synced, Elsewhere>>

\* BuildContext, RunAccessors, RecordState for the next table: every accessor
\* writes its artifact, the error artifact when its retrieval failed, and the
\* table is recorded; an accessor that raised would end the database's sync
SyncTable(errs) ==
    /\ sync.pc = "table"
    /\ sync.tables # << >>
    /\ LET schema == sync.schema
           table == Head(sync.tables)
           artifacts == [kind \in AccessorKinds |-> generate(kind, table, errs[kind])]
           rest == Tail(sync.tables)
       IN IF \E kind \in AccessorKinds : artifacts[kind].raised
          THEN /\ sync' = Aborted(sync)
               /\ UNCHANGED <<synced_schemas, synced_tables, tables_synced>>
          ELSE /\ sync' = [sync EXCEPT
                              !.tables = rest,
                              !.degraded = IF \E kind \in AccessorKinds : errs[kind] # NoError
                                           THEN @ \cup {<<schema, table>>} ELSE @,
                              !.pc = IF rest = << >> THEN "schema" ELSE "table",
                              !.schemas = IF rest = << >> THEN Tail(@) ELSE @]
               /\ synced_schemas' = SchemasAfterAddTable(schema)
               /\ synced_tables' = TablesAfterAdd(schema, table)
               /\ tables_synced' = TablesSyncedAfterAdd(schema, table)
    /\ UNCHANGED <<schemas_synced, Elsewhere>>

\* all schemas done: sync_database returns the state
FinishDatabase ==
    /\ sync.pc = "schema"
    /\ sync.schemas = << >>
    /\ sync' = [sync EXCEPT !.pc = "cleanup", !.status[sync.db] = "complete"]
    /\ UNCHANGED <<ledger, Elsewhere>>

\* a cleanup that also runs for a database whose sync was aborted
MayCleanAlways(run) == TRUE

\* cleanup_stale_paths(state) is called for a database whose sync completed
MayClean(run) == run.status[run.db] = "complete"

CleanupPaths ==
    /\ sync.pc = "cleanup"
    /\ MayClean(sync)
    /\ sync' = NextDatabase([sync EXCEPT !.cleaned[sync.db] = @ + 1])
    /\ UNCHANGED <<ledger, Elsewhere>>

\* no state came back from sync_database: the run goes on without a cleanup
SkipCleanup ==
    /\ sync.pc = "cleanup"
    /\ ~MayClean(sync)
    /\ sync' = NextDatabase(sync)
    /\ UNCHANGED <<ledger, Elsewhere>>

\* cleanup_stale_database_types, once every database has had its turn
CleanupTypes ==
    /\ sync.pc = "types"
    /\ sync' = [sync EXCEPT !.pc = "done", !.types_cleaned = @ + 1]
    /\ UNCHANGED <<ledger, Elsewhere>>

\* the run is cancelled in the middle of a database's sync: nothing follows
Cancel ==
    /\ sync.pc \in {"resolve", "schema", "table"}
    /\ sync' = [sync EXCEPT !.status[sync.db] = "aborted", !.pc = "cancelled"]
    /\ UNCHANGED <<ledger, Elsewhere>>

\* the outcomes of the retrievals of one table, per accessor
RetrievalOutcomes ==
    {[kind \in AccessorKinds |-> NoError],
     [kind \in AccessorKinds |-> IF kind = "preview" THEN TimeoutError ELSE NoError],
     [kind \in AccessorKinds |-> DirectSelectError]}

NextSync ==
    \/ \E include \in IncludeFilters, exclude \in ExcludeFilters : StartRun(include, exclude)
    \/ \E ok \in BOOLEAN : Connect(ok)
    \/ \E ok \in BOOLEAN, schemas \in SchemaLists : ResolveSchemas(ok, schemas)
    \/ \E ok \in BOOLEAN, listing \in TableLists : ResolveTables(ok, listing)
    \/ \E errs \in RetrievalOutcomes : SyncTable(errs)
    \/ FinishDatabase
    \/ CleanupPaths
    \/ SkipCleanup
    \/ CleanupTypes
    \/ Cancel

SpecSync == Init /\ [][NextSync]_vars

----------------------------------------------------------------------------
(* The cleanup and context specifications *)

Next ==
    \/ \E s \in SchemaNames, t \in TableNames : add_table(s, t)
    \/ \E s \in SchemaNames : add_schema(s)
    \/ MakeDbPath
    \/ \E parent \in {<< >>} \cup {e.path : e \in tree},
          k \in SchemaLevelEntries \cup TableLevelEntries \cup ArtifactEntries :
              MakeEntry(parent, k.name, k.dir)
    \/ cleanup_stale_paths
    \/ cleanup_stale_paths_raises

\* the whole output tree under both cleanups, for a run that synced nothing
NextTypes ==
    \/ \E k \in TypeLevelEntries : MakeTypeEntry(k.name, k.dir)
    \/ MakeDbPath
    \/ \E parent \in {<< >>} \cup {e.path : e \in tree},
          k \in SchemaLevelEntries \cup TableLevelEntries \cup ArtifactEntries :
              MakeEntry(parent, k.name, k.dir)
    \/ cleanup_stale_paths
    \/ cleanup_stale_paths_raises
    \/ \E b \in BasePaths, a \in ActiveTypeSets : cleanup_stale_database_types(b, a)
    \/ \E a \in ActiveTypeSets : cleanup_stale_database_types_raises(a)

\* the calls a template makes on the contexts of a warehouse's tables
NextContext ==
    \/ \E c \in ChTables : CH_description(c)
    \/ \E c \in ChTables : CH_indexes(c)
    \/ \E c \in ChTables : CH_row_count(c)
    \/ \E c \in ChTables : CH_column_count(c)
    \/ \E c \in ChTables : CH_columns(c)
    \/ \E c \in ChTables, limit \in Limits : CH_preview(c, limit)
    \/ DC_columns
    \/ \E limit \in Limits : DC_preview(limit)
    \/ DC_row_count
    \/ DC_column_count
    \/ DC_partition_columns
    \/ DC_description
    \/ DC_indexes
    \/ BQ_partition_columns
    \/ BQ_description
    \/ BQ_columns
    \/ RS_columns
    \/ RS_column_count
    \/ \E limit \in Limits : RS_preview(limit)
    \/ RS_row_count
    \/ RS_description

SpecContext == Init /\ [][NextContext]_vars

SpecTypes == Init /\ [][NextTypes]_vars

Spec == Init /\ [][Next]_vars

----------------------------------------------------------------------------
(* Claims about cleanup_stale_paths *)

ReturnedFrom(l, op) == l.op = op /\ ~l.raised

\* schema=<s> directories of tree t, and table=<t> directories below path p
SchemaNamedDirs(t) == {d \in Iterdir(t, << >>) : d.dir /\ StartsWith(Name(d), SchemaPrefix)}

TableNamedDirs(t, p) == {d \in Iterdir(t, p) : d.dir /\ StartsWith(Name(d), TablePrefix)}

\* C1: after cleanup_stale_paths returns normally on an existing db_path, no
\* directory schema=<s> with s not in synced_schemas remains, and under every
\* remaining schema=<s> no directory table=<t> with t not in synced_tables[s]
\* (the empty set when s has no entry) remains.
C1_NoStalePathRemains ==
    (ReturnedFrom(last, "cleanup_stale_paths") /\ DbPathExists) =>
        \A d \in SchemaNamedDirs(tree) :
            /\ AfterPrefix(Name(d)) \in synced_schemas
            /\ \A t \in TableNamedDirs(tree, d.path) :
                   AfterPrefix(Name(t)) \in TablesOf(AfterPrefix(Name(d)))

\* C2: cleanup_stale_paths never deletes a live path: every schema=<s>
\* directory with s in synced_schemas, and every table=<t> directory under it
\* with t in synced_tables[s], still exists after the call, the table
\* directory with its contents unchanged.
C2_LivePathsKept ==
    [][ReturnedFrom(last', "cleanup_stale_paths") =>
          \A d \in SchemaNamedDirs(tree) :
              AfterPrefix(Name(d)) \in synced_schemas =>
                  /\ d \in tree'
                  /\ \A t \in TableNamedDirs(tree, d.path) :
                         AfterPrefix(Name(t)) \in TablesOf(AfterPrefix(Name(d))) =>
                             Subtree(tree', t.path) = Subtree(tree, t.path)]_vars

\* the schema directories a step removed, and the table directories it removed
\* from the schema directories it kept
RemovedSchemaDirs == {d \in SchemaNamedDirs(tree) : d \notin tree'}

RemovedTableDirs ==
    {t \in UNION {TableNamedDirs(tree, d.path) : d \in SchemaNamedDirs(tree) \cap tree'} :
        t \notin tree'}

\* C3: cleanup_stale_paths returns exactly the number of directories it
\* removed: one per removed schema directory (the table directories inside it
\* are not counted) plus one per table directory removed from a retained
\* schema; it returns 0 and changes nothing when db_path does not exist.
C3_ReturnsRemovedCount ==
    [][ReturnedFrom(last', "cleanup_stale_paths") =>
          /\ last'.ret = Cardinality(RemovedSchemaDirs) + Cardinality(RemovedTableDirs)
          /\ tree \ tree' = SubtreeOfAll(tree, Paths(RemovedSchemaDirs \cup RemovedTableDirs))
          /\ tree' \subseteq tree
          /\ ~DbPathExists => (last'.ret = 0 /\ tree' = tree /\ types' = types)]_vars

C3_Witness ==
    /\ ReturnedFrom(last, "cleanup_stale_paths")
    /\ last.ret = 2
    /\ \E p \in last.stale : Len(p) = 1
    /\ \E p \in last.stale : Len(p) = 2

\* C4: a second cleanup_stale_paths with the same state directly after a
\* successful first run returns 0 and leaves the tree unchanged.
C4_SecondRunRemovesNothing ==
    [][(ReturnedFrom(last, "cleanup_stale_paths")
           /\ ReturnedFrom(last', "cleanup_stale_paths"))
          => (last'.ret = 0 /\ tree' = tree)]_vars

\* C5: cleanup_stale_paths leaves untouched every entry directly under db_path
\* that is not a directory named schema=..., and every entry directly under a
\* retained schema directory that is not a directory named table=... (plain
\* files with such names included).
C5_UnrecognizedEntriesKept ==
    [][(last'.op = "cleanup_stale_paths") =>
          /\ \A e \in Iterdir(tree, << >>) \ SchemaNamedDirs(tree) :
                 Subtree(tree', e.path) = Subtree(tree, e.path)
          /\ ~last'.raised =>
                 \A d \in SchemaNamedDirs(tree) \cap tree' :
                 \A e \in Iterdir(tree, d.path) \ TableNamedDirs(tree, d.path) :
                     Subtree(tree', e.path) = Subtree(tree, e.path)]_vars

C5_Witness ==
    /\ ReturnedFrom(last, "cleanup_stale_paths")
    /\ \E e \in Iterdir(tree, << >>) : ~e.dir /\ StartsWith(Name(e), SchemaPrefix)
    /\ \E d \in SchemaNamedDirs(tree) : Iterdir(tree, d.path) \ TableNamedDirs(tree, d.path) # {}

\* C16: after cleanup_stale_paths returns normally on an existing db_path, no
\* directory schema=<s> remains for a schema s that has no synced table: every
\* remaining schema=<s> directory has a non-empty synced_tables[s].  Stated
\* for the directories whose name holds the prefix schema= once, the names
\* that replace() reads as they are written.
C16_NoTablelessSchemaRemains ==
    (ReturnedFrom(last, "cleanup_stale_paths") /\ DbPathExists) =>
        \A d \in SchemaNamedDirs(tree) :
            Replace(Name(d), SchemaPrefix) = AfterPrefix(Name(d)) =>
                TablesOf(AfterPrefix(Name(d))) # {}

----------------------------------------------------------------------------
(* Claims about cleanup_stale_database_types *)

TypeNamedDirs(ts) == {e \in ts : e.dir /\ StartsWith(e.name, TypePrefix)}

\* C6: cleanup_stale_database_types(base_path, active_db_types) deletes exactly
\* the directories directly under base_path whose name starts with type= and
\* whose full name is not in active_db_types; every other entry stays, the
\* return value is the number of directories deleted, and it returns 0 without
\* changes when base_path does not exist.
C6_RemovesExactlyInactiveTypes ==
    [][\A b \in BasePaths, a \in ActiveTypeSets :
          cleanup_stale_database_types(b, a) =>
              IF BasePathExists(b)
              THEN /\ types' \subseteq types
                   /\ types \ types' = {e \in TypeNamedDirs(types) : e.name \notin a}
                   /\ last'.ret = Cardinality(types \ types')
                   /\ DbTypeDir \in types' => (tree' = tree /\ db_dir' = db_dir)
              ELSE /\ last'.ret = 0
                   /\ types' = types /\ tree' = tree /\ db_dir' = db_dir]_vars

C6_Witness ==
    /\ ReturnedFrom(last, "cleanup_stale_database_types")
    /\ last.ret >= 1
    /\ TypeNamedDirs(types) # {}
    /\ types \ TypeNamedDirs(types) # {}

\* C7: if deleting a stale directory fails, cleanup_stale_paths and
\* cleanup_stale_database_types end with the error: neither returns normally
\* while a directory it identified as stale still exists.
C7_NoNormalReturnWithStaleLeft ==
    /\ ReturnedFrom(last, "cleanup_stale_paths") =>
           \A p \in last.stale : \A e \in tree : e.path # p
    /\ ReturnedFrom(last, "cleanup_stale_database_types") =>
           \A n \in last.stale : \A e \in types : e.name # n

C7_Witness ==
    /\ last.raised
    /\ last.op = "cleanup_stale_paths"
    /\ \E p \in last.stale : \E e \in tree : e.path = p

C7_WitnessTypes ==
    /\ last.raised
    /\ last.op = "cleanup_stale_database_types"
    /\ \E n \in last.stale : \E e \in types : e.name = n

----------------------------------------------------------------------------
(* Claims about DatabaseSyncState *)

SyncedPairs == {p \in SchemaNames \X TableNames : p[2] \in TablesOf(p[1])}

\* C8: after any sequence of add_table and add_schema calls, every key of
\* synced_tables is in synced_schemas, and for every add_table(s, t) made so
\* far t is in synced_tables[s] and s is in synced_schemas.
C8_TablesImplySchemas ==
    /\ DOMAIN synced_tables \subseteq synced_schemas
    /\ \A p \in SchemaNames \X TableNames :
           calls.tables[p] > 0 =>
               /\ p[1] \in DOMAIN synced_tables
               /\ p[2] \in synced_tables[p[1]]
               /\ p[1] \in synced_schemas

C8_Witness ==
    /\ AddTableCalls = 2
    /\ Cardinality(DOMAIN synced_tables) = 2

\* C9 as claimed: tables_synced equals the number of distinct (schema, table)
\* pairs held in synced_tables.
C9_CounterEqualsDistinctPairs == tables_synced = Cardinality(SyncedPairs)

\* C9 amended: tables_synced equals the number of add_table calls made; it is
\* never smaller than the number of distinct (schema, table) pairs in
\* synced_tables and equals it exactly when no pair was added more than once.
C9_CounterCountsAddTableCalls ==
    /\ tables_synced = AddTableCalls
    /\ tables_synced >= Cardinality(SyncedPairs)
    /\ (tables_synced = Cardinality(SyncedPairs))
           <=> (\A p \in SchemaNames \X TableNames : calls.tables[p] <= 1)

C9_Witness ==
    /\ \E p \in SchemaNames \X TableNames : calls.tables[p] = 2
    /\ tables_synced = 2
    /\ Cardinality(SyncedPairs) = 1

\* C10: schemas_synced counts add_schema operations: it starts at 0, each
\* add_schema call raises it by exactly 1 even when the schema is already in
\* synced_schemas, add_table never changes it, and neither schemas_synced nor
\* tables_synced ever decreases.
C10_SchemasSyncedCountsCalls ==
    /\ schemas_synced = 0
    /\ [][/\ calls'.schemas # calls.schemas => schemas_synced' = schemas_synced + 1
          /\ calls'.tables # calls.tables => schemas_synced' = schemas_synced
          /\ schemas_synced' >= schemas_synced
          /\ tables_synced' >= tables_synced]_vars

C10_Witness ==
    /\ \E s \in SchemaNames : calls.schemas[s] = 2
    /\ schemas_synced = 2
    /\ Cardinality(synced_schemas) = 1

----------------------------------------------------------------------------
(* Claims about ClickHouseDatabaseContext *)

ClickHouseCalled(op) == ctx_last.variant = "clickhouse" /\ ctx_last.op = op

ReadOps == {"columns", "preview", "row_count", "column_count"}

\* C11: the fallback flag _direct_select_disallowed of every ClickHouse
\* context is false at construction, and over any sequence of columns(),
\* preview(), row_count(), column_count(), description() and indexes() calls
\* a flag that is true is never set back to false.
C11_FlagNeverReverts ==
    /\ \A c \in ChTables : ~ch_flag[c]
    /\ [][\A c \in ChTables : ch_flag[c] => ch_flag'[c]]_vars

C11_Witness ==
    /\ ctx_last.variant = "clickhouse"
    /\ ctx_last.fallback
    /\ ctx_last.queries # {}
    /\ ch_flag[ctx_last.ctx]
    /\ \E c \in ChTables : ~ch_flag[c]

\* C12: a columns(), preview(), row_count() or column_count() call made on a
\* ClickHouse context that is in fallback mode reads nothing from the table
\* (no table handle, no schema lookup, no count, no SELECT): the queries it
\* issues are catalog queries only.
C12_NoDirectReadInFallback ==
    (ctx_last.variant = "clickhouse" /\ ctx_last.op \in ReadOps /\ ctx_last.fallback) =>
        /\ ctx_last.queries \cap DirectQueries = {}
        /\ ctx_last.queries \subseteq CatalogQueries
        /\ ~ctx_last.raised

C12_Witness ==
    /\ ClickHouseCalled("preview")
    /\ ctx_last.fallback
    /\ ctx_last.queries = {"SHOW CREATE TABLE"}
    /\ ~ch_ref[ctx_last.ctx]

\* C13: row_count() of a ClickHouse context returns 0 without raising when
\* its direct read is rejected as direct-select-disallowed, and returns 0
\* without any query on every call made in fallback mode; the row_count()
\* that follows a preview() which triggered fallback returns 0 with no query.
C13_RowCountZeroWhenDisallowed ==
    /\ [](ClickHouseCalled("row_count") =>
            /\ ctx_last.err.code = "620" => (~ctx_last.raised /\ ctx_last.count = 0)
            /\ ctx_last.fallback =>
                 (~ctx_last.raised /\ ctx_last.count = 0 /\ ctx_last.queries = {}))
    /\ [][(/\ ClickHouseCalled("preview")
           /\ ~ctx_last.fallback
           /\ ch_flag[ctx_last.ctx]
           /\ ctx_last'.variant = "clickhouse"
           /\ ctx_last'.op = "row_count"
           /\ ctx_last'.ctx = ctx_last.ctx)
          => (~ctx_last'.raised /\ ctx_last'.count = 0 /\ ctx_last'.queries = {})]_vars

C13_Witness ==
    /\ ClickHouseCalled("row_count")
    /\ ctx_last.ctx = "kafka_events"
    /\ ctx_last.err.code = "620"
    /\ ~ctx_last.fallback
    /\ ctx_last.count = 0
    /\ ch_flag["kafka_events"]

\* C14: a ClickHouse context enters fallback mode only in a call on that same
\* context whose direct read failed with ClickHouse code 620; a direct read
\* that fails for any other reason leaves the flag as it is and, in columns(),
\* row_count() and column_count(), is re-raised to the caller.
C14_FallbackOnlyOnCode620 ==
    [][/\ \A c \in ChTables :
             (~ch_flag[c] /\ ch_flag'[c]) =>
                 /\ ctx_last'.variant = "clickhouse"
                 /\ ctx_last'.ctx = c
                 /\ ctx_last'.err.code = "620"
                 /\ ctx_last'.queries \cap DirectQueries # {}
       /\ (/\ ctx_last'.variant = "clickhouse"
           /\ ctx_last'.op \in {"columns", "row_count", "column_count"}
           /\ ctx_last'.err \notin {NoError, DirectSelectError})
          => ctx_last'.raised]_vars

\* C15: on the table that disallows direct SELECT, every columns() call that
\* meets the rejection or is made in fallback mode returns the metadata of
\* system.columns, one entry per catalog column in position order.
C15_ColumnsFromSystemOnEveryCall ==
    (/\ ClickHouseCalled("columns")
     /\ ctx_last.ctx = "kafka_events"
     /\ ctx_last.fallback \/ ctx_last.err.code = "620"
     /\ ~ctx_last.cat_failed)
    => (~ctx_last.raised /\ ctx_last.rows = columns_from_system(ctx_last.ctx, TRUE))

----------------------------------------------------------------------------
(* Claims about every context variant *)

Called(op) == ctx_last.op = op /\ ~ctx_last.raised

\* C17: on the generic, ClickHouse and Redshift variants every value of every
\* row preview() returns is null, a string, a number, a boolean, a list or a
\* mapping; a fetched value of another kind is returned as its string form
\* and a fetched value of these kinds is returned as fetched.
C17_PreviewValuesAreSafe ==
    (Called("preview") /\ ctx_last.variant \in {"generic", "clickhouse", "redshift"}) =>
        /\ \A i \in 1..Len(ctx_last.rows) : \A key \in DOMAIN ctx_last.rows[i] :
               ctx_last.rows[i][key].kind \in JsonKinds \cup {"null"}
        /\ ctx_last.fetched # << >> =>
               /\ Len(ctx_last.rows) = Len(ctx_last.fetched)
               /\ \A i \in 1..Len(ctx_last.fetched) :
                      /\ DOMAIN ctx_last.rows[i] = DOMAIN ctx_last.fetched[i]
                      /\ \A key \in DOMAIN ctx_last.fetched[i] :
                             ctx_last.rows[i][key] =
                                 IF ctx_last.fetched[i][key].kind \in JsonKinds \cup {"null"}
                                 THEN ctx_last.fetched[i][key]
                                 ELSE Value("str", ctx_last.fetched[i][key].text)

C17_Witness ==
    /\ Called("preview")
    /\ ctx_last.variant = "redshift"
    /\ Len(ctx_last.fetched) = 2
    /\ ctx_last.fetched[1].payload.kind = "datetime"
    /\ ctx_last.rows[1].payload.kind = "str"
    /\ ctx_last.rows[2].payload.kind = "dict"
    /\ ctx_last.rows[2].id.kind = "null"

\* C18 as claimed: preview(limit) returns at most limit rows, for every
\* limit >= 0, on every variant, in direct and in fallback mode.
C18_AtMostLimitRows == Called("preview") => Len(ctx_last.rows) <= ctx_last.limit

\* C18 amended: preview(limit) returns at most limit rows whenever the rows
\* come from reading the table (generic, Redshift, the SELECT of ClickHouse);
\* when the ClickHouse preview answers with the DDL (fallback mode, a table
\* without columns, a failed SELECT) it returns at most one row, a
\* create_table row, whatever the limit is, limit = 0 included.
C18_AtMostLimitRowsOrOneDdlRow ==
    Called("preview") =>
        IF "SHOW CREATE TABLE" \in ctx_last.queries
        THEN /\ ctx_last.variant = "clickhouse"
             /\ Len(ctx_last.rows) <= 1
             /\ \A i \in 1..Len(ctx_last.rows) : DOMAIN ctx_last.rows[i] = {"create_table"}
        ELSE /\ Len(ctx_last.rows) <= ctx_last.limit
             /\ Len(ctx_last.rows) = Len(ctx_last.fetched)

C18_Witness ==
    /\ Called("preview")
    /\ ctx_last.variant = "clickhouse"
    /\ ctx_last.limit = 0
    /\ Len(ctx_last.rows) = 1
    /\ ctx_last.fallback

C18_WitnessLimited ==
    /\ Called("preview")
    /\ ctx_last.variant = "clickhouse"
    /\ ctx_last.limit = 1
    /\ Len(ctx_last.rows) = 1
    /\ ctx_last.fetched # << >>

\* C19: description() and partition_columns() never raise, on any variant;
\* when the catalog lookup fails description() returns None and
\* partition_columns() returns the empty sequence.
C19_FailSoftNeverRaises ==
    /\ ctx_last.op \in {"description", "partition_columns"} => ~ctx_last.raised
    /\ (ctx_last.op = "description" /\ ctx_last.cat_failed) => ctx_last.text = None
    /\ (ctx_last.op = "partition_columns" /\ ctx_last.cat_failed) => ctx_last.names = << >>

C19_Witness ==
    /\ ctx_last.variant = "bigquery"
    /\ ctx_last.op = "partition_columns"
    /\ ctx_last.cat_failed
    /\ ~ctx_last.raised

\* C20 as claimed: columns() does not raise when a catalog query it depends
\* on fails, on every variant.
C20_ColumnsNeverRaises == ctx_last.op = "columns" => ~ctx_last.raised

\* the error met by the query that lists the columns is one columns() handles
Handled(call) ==
    call.err = NoError \/ (call.variant = "clickhouse" /\ is_direct_select_disallowed(call.err))

\* C20 amended: columns() does not raise when the lookup of the column
\* descriptions fails: BigQuery and Redshift then return every column without
\* a description; ClickHouse does not raise when its schema lookup fails with
\* an error classified as direct-select-disallowed.  A failure of the query
\* that lists the columns (table.schema(), information_schema.columns) is
\* raised to the caller, on every variant.
C20_ColumnsRaisesOnlyOnListingFailure ==
    ctx_last.op = "columns" =>
        /\ ctx_last.raised <=> ~Handled(ctx_last)
        /\ (~ctx_last.raised /\ ctx_last.cat_failed /\ ctx_last.variant \in {"bigquery", "redshift"}) =>
               /\ Len(ctx_last.rows) = Len(TableSchema(ctx_last.ctx))
               /\ \A i \in 1..Len(ctx_last.rows) :
                      /\ ctx_last.rows[i].name = TableSchema(ctx_last.ctx)[i].name
                      /\ ctx_last.rows[i].description = None

C20_Witness ==
    /\ ctx_last.op = "columns"
    /\ ctx_last.variant = "redshift"
    /\ ctx_last.cat_failed
    /\ ~ctx_last.raised
    /\ Len(ctx_last.rows) = 2

C20_WitnessRaised ==
    /\ ctx_last.op = "columns"
    /\ ctx_last.variant = "redshift"
    /\ ctx_last.raised

\* str.endswith(" NOT NULL")
Tagged(type) == Len(type) > 0 /\ type[Len(type)] = " NOT NULL"

\* C21: on every variant and every path of columns(), a returned column with
\* nullable = false has a type string that ends in ` NOT NULL`, and a column
\* with nullable = true has a type string without that tag.
C21_NonNullableTypesAreTagged ==
    Called("columns") =>
        \A i \in 1..Len(ctx_last.rows) :
            ctx_last.rows[i].nullable <=> ~Tagged(ctx_last.rows[i].type)

\* a ClickHouse read that began outside fallback mode and met error code 620
FirstEncounter(call) ==
    /\ call.variant = "clickhouse"
    /\ call.op \in ReadOps
    /\ ~call.fallback
    /\ call.err = DirectSelectError

\* what a call handed back to its caller
Outcome(call) ==
    [raised |-> call.raised, count |-> call.count, rows |-> call.rows]

\* C27: the call that first meets the direct-select-disallowed condition
\* returns what the same operation returns on that context in fallback mode,
\* the catalog answering as before, for columns(), preview(), row_count() and
\* column_count().
C27_FirstEncounterMatchesFallback ==
    [][(/\ FirstEncounter(ctx_last)
        /\ ctx_last'.variant = "clickhouse"
        /\ ctx_last'.ctx = ctx_last.ctx
        /\ ctx_last'.op = ctx_last.op
        /\ ctx_last'.limit = ctx_last.limit
        /\ ctx_last'.fallback
        /\ ctx_last'.catalog \in {<< >>, ctx_last.catalog})
       => Outcome(ctx_last') = Outcome(ctx_last)]_vars

\* C28: cleanup_stale_paths judges every schema=<n> and table=<n> directory on
\* its own, by the name n that follows the prefix: the directory is deleted
\* if and only if n is not recorded in the state, also when n itself holds
\* the text schema= or table= and when two names differ only by such text.
C28_JudgedByNameAfterPrefix ==
    [][(ReturnedFrom(last', "cleanup_stale_paths") /\ DbPathExists) =>
          /\ \A d \in SchemaNamedDirs(tree) :
                 d \notin tree' <=> AfterPrefix(Name(d)) \notin synced_schemas
          /\ \A d \in SchemaNamedDirs(tree) \cap tree' :
             \A t \in TableNamedDirs(tree, d.path) :
                 t \notin tree' <=>
                     AfterPrefix(Name(t)) \notin TablesOf(AfterPrefix(Name(d)))]_vars

----------------------------------------------------------------------------
(* Claims about BigQuery partition_columns *)

\* a sequence without its later duplicates
RECURSIVE KeepFirst(_)
KeepFirst(seq) ==
    IF seq = << >> THEN << >>
    ELSE LET init == KeepFirst(SubSeq(seq, 1, Len(seq) - 1))
             x == seq[Len(seq)]
         IN IF \E i \in 1..Len(init) : init[i] = x THEN init ELSE Append(init, x)

NoDuplicates(seq) == \A i, j \in 1..Len(seq) : seq[i] = seq[j] => i = j

PartitionColumnsReturned ==
    /\ ctx_last.variant = "bigquery"
    /\ ctx_last.op = "partition_columns"
    /\ ~ctx_last.cat_failed

\* C30 as stated: partition_columns() returns the partitioning columns
\* followed by the clustering columns in clustering-position order, every
\* column name once (the first occurrence kept), whatever the two catalog
\* queries return.
C30_EveryNameOnce ==
    PartitionColumnsReturned =>
        /\ ctx_last.names = KeepFirst(ctx_last.catalog[1].cell \o ctx_last.catalog[2].cell)
        /\ NoDuplicates(ctx_last.names)

\* C30 as amended: the result is the rows of the partitioning query as they
\* came, followed by the clustering columns that are not yet in the list, in
\* clustering-position order and each once; no name appears twice in the
\* result when the partitioning query returned no name twice.
C30_ClusteringNamesAddedOnce ==
    PartitionColumnsReturned =>
        LET partition == ctx_last.catalog[1].cell
            clustering == ctx_last.catalog[2].cell
        IN /\ ctx_last.names =
                partition \o SelectSeq(KeepFirst(clustering),
                                       LAMBDA x : x \notin Elements(partition))
           /\ NoDuplicates(partition) => NoDuplicates(ctx_last.names)

C30_Witness ==
    /\ PartitionColumnsReturned
    /\ ctx_last.catalog[1].cell = <<"day">>
    /\ ctx_last.catalog[2].cell = <<"day", "region">>
    /\ ctx_last.names = <<"day", "region">>

----------------------------------------------------------------------------
(* Claims about get_schemas *)

\* the config names the schemas to sync
Pinned(call) ==
    \/ call.variant \in {"bigquery", "redshift"} /\ Truthy(call.pinned)
    \/ call.variant = "clickhouse" /\ call.include.some /\ call.include.items # << >>

Unpinned(call) == call.variant # "none" /\ ~Pinned(call)

\* C22 as stated: with a pinned schema or an include-list (BigQuery
\* dataset_id, Redshift schema_name, ClickHouse schemas_include) get_schemas
\* returns exactly the configured set, whatever the warehouse lists.
C22_ReturnsConfiguredSet ==
    Pinned(gs_last) =>
        IF gs_last.variant = "clickhouse"
        THEN /\ Elements(gs_last.schemas) = Elements(gs_last.include.items)
             /\ NoDuplicates(gs_last.schemas)
        ELSE gs_last.schemas = <<gs_last.pinned.text>>

\* C22 as amended: BigQuery and Redshift return exactly the pinned schema,
\* whatever the warehouse lists; ClickHouse returns the databases of the
\* include-list that the warehouse lists and that are no system databases,
\* in the order of the listing, and nothing when the connection cannot list.
C22_PinnedOrListedIncluded ==
    Pinned(gs_last) =>
        IF gs_last.variant = "clickhouse"
        THEN /\ Elements(gs_last.schemas) =
                  (Elements(gs_last.listing) \cap Elements(gs_last.include.items))
                      \ SYSTEM_DATABASES
             /\ gs_last.schemas =
                  SelectSeq(gs_last.listing, LAMBDA s : s \in Elements(gs_last.schemas))
             /\ ~gs_last.listable => gs_last.schemas = << >>
        ELSE gs_last.schemas = <<gs_last.pinned.text>>

C22_Witness ==
    /\ gs_last.variant = "clickhouse"
    /\ gs_last.include = Include(<<Analytics, <<"missing">>>>)
    /\ {<<"system">>, <<"default">>, Analytics} \subseteq Elements(gs_last.listing)
    /\ gs_last.schemas = <<Analytics>>

\* str.startswith("pg_")
StartsWithPgUnderscore(name) == LikePg(name) /\ name[2] = "_"

\* C29: with no schema pinned, get_schemas returns no built-in schema on any
\* of its paths: ClickHouse never system, INFORMATION_SCHEMA or
\* information_schema; Redshift never information_schema or a name that
\* starts with pg_.
C29_NoSystemSchemaReturned ==
    Unpinned(gs_last) =>
        \A s \in Elements(gs_last.schemas) :
            /\ gs_last.variant = "clickhouse" =>
                   s \notin {<<"system">>, <<"INFORMATION_SCHEMA">>, InformationSchema}
            /\ gs_last.variant = "redshift" =>
                   s # InformationSchema /\ ~StartsWithPgUnderscore(s)

----------------------------------------------------------------------------
(* Claims about the accessors *)

\* the tokens of part appear in text, one after the other
Contains(text, part) ==
    \E i \in 0..(Len(text) - Len(part)) : SubSeq(text, i + 1, i + Len(part)) = part

Generated == acc_last.op = "generate"

\* C25: for every accessor kind, generate(connection, schema, table) never
\* raises: when data retrieval through the context fails with any exception,
\* generate returns a minimal artifact that holds the table name heading and
\* an error message.
C25_GenerateNeverRaises ==
    Generated =>
        /\ ~acc_last.raised
        /\ acc_last.err # NoError =>
               /\ Contains(acc_last.result, <<"# ", acc_last.table>>)
               /\ \/ Contains(acc_last.result, <<ErrorPrefix>>)
                  \/ Contains(acc_last.result, acc_last.err.msg)

C25_Witness ==
    /\ Generated
    /\ acc_last.kind = "columns"
    /\ acc_last.err = TimeoutError
    /\ acc_last.result = ErrorArtifact("my_table", TimeoutError)

Truncated == acc_last.op = "truncate_middle" /\ Len(acc_last.text) > acc_last.max_length

\* result is a prefix of the text and a suffix of it around the marker
AroundMarker(text, result) ==
    \E head, tail \in 0..Len(text) :
        result = TakeFirst(text, head) \o Marker \o TakeLast(text, tail)

LengthLaw ==
    /\ Len(acc_last.result) <= (IF acc_last.max_length > 0 THEN acc_last.max_length ELSE 0)
    /\ Len(acc_last.text) <= acc_last.max_length => acc_last.result = acc_last.text

----------------------------------------------------------------------------
(* Claims about the sync orchestrator *)

\* the (schema, table) pairs a synced_tables dict holds
Pairs(tables) == UNION {{<<schema, t>> : t \in tables[schema]} : schema \in DOMAIN tables}

\* the enumerated tables that match an include pattern, when there is one,
\* and no exclude pattern
Passed ==
    {p \in sync.enumerated :
        /\ sync.include # {} => \E q \in sync.include : Matches(q, p[1], p[2])
        /\ \A q \in sync.exclude : ~Matches(q, p[1], p[2])}

SyncCompleted == sync.pc = "cleanup" /\ sync.status[sync.db] = "complete"

\* C23: after sync_database completes, synced_tables holds exactly the
\* (schema, table) pairs of the enumerated tables that match an include
\* pattern (when one is configured) and no exclude pattern, whether or not
\* retrievals or accessors failed, and tables_synced is their number.
C23_SyncedTablesAreFilteredTables ==
    SyncCompleted =>
        /\ Pairs(synced_tables) = Passed
        /\ tables_synced = Cardinality(Passed)

C23_Witness ==
    /\ SyncCompleted
    /\ sync.include # {}
    /\ sync.exclude # {}
    /\ sync.degraded # {}
    /\ Pairs(synced_tables) # {}
    /\ sync.enumerated \ Pairs(synced_tables) # {}

DatabaseIndexes == 1..Len(Databases)

\* C24: cleanup_stale_paths for a database is invoked only after every
\* schema and table of that database has been processed and recorded, never
\* in the middle of a sync and never after an aborted or partial sync of
\* that database; cleanup_stale_database_types is invoked once, after all
\* configured databases have had their sync.
C24_CleanupOnlyAfterCompleteSync ==
    [][/\ \A d \in DatabaseIndexes :
            /\ sync'.cleaned[d] > sync.cleaned[d] =>
                   /\ sync.db = d
                   /\ sync.status[d] = "complete"
                   /\ sync.schemas = << >> /\ sync.tables = << >>
                   /\ sync.cleaned[d] = 0
            /\ sync'.status[d] \in {"pending", "syncing", "aborted"} => sync'.cleaned[d] = 0
       /\ sync'.types_cleaned > sync.types_cleaned =>
            /\ sync.types_cleaned = 0
            /\ \A d \in DatabaseIndexes :
                   /\ sync.status[d] \in {"complete", "aborted"}
                   /\ sync.status[d] = "complete" => sync.cleaned[d] = 1
       /\ sync'.pc = "done" => sync'.types_cleaned = 1]_vars

C24_Witness ==
    /\ sync.pc = "done"
    /\ sync.status[1] = "aborted" /\ sync.cleaned[1] = 0
    /\ sync.status[2] = "complete" /\ sync.cleaned[2] = 1
    /\ tables_synced > 0
    /\ sync.types_cleaned = 1

====
